---------------------------- MODULE Spec2Model ----------------------------
(***************************************************************************)
(* A model of the KubernetesAdaptor of toscakubed.py: the translation of a *)
(* parsed TOSCA topology into an ordered collection of Kubernetes          *)
(* manifests.                                                              *)
(*                                                                         *)
(* Representation of the Python values:                                    *)
(*   - a str the code computes on (names, kinds, types, addresses) is a    *)
(*     sequence of one-character strings, so that "_" in s, s.lower(),     *)
(*     s.split("."), "{}-{}".format(..) are computed, not assumed;         *)
(*   - a dict is a function from its keys to its values, an absent key is  *)
(*     a key outside the DOMAIN; d.get(k) returning None is "k absent";    *)
(*   - a list is a sequence;                                               *)
(*   - a port number, which may be a Python int or a str, is tagged:       *)
(*     <<"int", n>> or <<"str", s>>;                                       *)
(*   - the adaptor's status and the dict keys are TLA+ strings.            *)
(*                                                                         *)
(* Sharing of mutable values:                                              *)
(*   - the inputs of an operation are the template's own dict when it is   *)
(*     not empty, so what the translation pops from them is written back   *)
(*     to the template; an empty dict is replaced by a fresh one;          *)
(*   - a volumeMounts list found in the properties is extended in place;   *)
(*   - a manifest is recorded with the value it has when it is appended:   *)
(*     a later change of a list or dict it shares with the template is     *)
(*     not carried back into manifests appended earlier.                   *)
(***************************************************************************)
EXTENDS Integers, Sequences, FiniteSets, TLC

---------------------------------------------------------------------------
(* str *)

\* The characters in ascending code-point order (those the model uses).
ASCII ==
    << " ", "!", "-", ".", "/", "0", "1", "2", "3", "4", "5", "6", "7", "8", "9", ":",
       "A", "B", "C", "D", "E", "F", "G", "H", "I", "J", "K", "L", "M",
       "N", "O", "P", "Q", "R", "S", "T", "U", "V", "W", "X", "Y", "Z", "_",
       "a", "b", "c", "d", "e", "f", "g", "h", "i", "j", "k", "l", "m",
       "n", "o", "p", "q", "r", "s", "t", "u", "v", "w", "x", "y", "z" >>

UPPERCASE == << "A", "B", "C", "D", "E", "F", "G", "H", "I", "J", "K", "L", "M",
                "N", "O", "P", "Q", "R", "S", "T", "U", "V", "W", "X", "Y", "Z" >>

LOWERCASE == << "a", "b", "c", "d", "e", "f", "g", "h", "i", "j", "k", "l", "m",
                "n", "o", "p", "q", "r", "s", "t", "u", "v", "w", "x", "y", "z" >>

DIGITS == << "0", "1", "2", "3", "4", "5", "6", "7", "8", "9" >>

IndexOf(c, seq) == CHOOSE i \in 1..Len(seq) : seq[i] = c

InSeq(c, seq) == \E i \in 1..Len(seq) : seq[i] = c

\* ord(c), up to the order-preserving renumbering of the characters used
Ord(c) == IndexOf(c, ASCII)

LowerChar(c) == IF InSeq(c, UPPERCASE) THEN LOWERCASE[IndexOf(c, UPPERCASE)] ELSE c

UpperChar(c) == IF InSeq(c, LOWERCASE) THEN UPPERCASE[IndexOf(c, LOWERCASE)] ELSE c

\* s.lower()
Lower(s) == [i \in 1..Len(s) |-> LowerChar(s[i])]

\* s.upper()
Upper(s) == [i \in 1..Len(s) |-> UpperChar(s[i])]

\* sub in s
Contains(sub, s) ==
    \E i \in 0..(Len(s) - Len(sub)) : SubSeq(s, i + 1, i + Len(sub)) = sub

\* s.replace(c, "")
Remove(s, c) == SelectSeq(s, LAMBDA x : x # c)

\* a < b on str: the first differing character decides, a proper prefix is smaller
StrLess(a, b) ==
    \E i \in 1..(Len(b)) :
        /\ \A j \in 1..(i - 1) : j <= Len(a) /\ a[j] = b[j]
        /\ \/ i = Len(a) + 1
           \/ i <= Len(a) /\ Ord(a[i]) < Ord(b[i])

\* s.split(c): the pieces between the occurrences of c
RECURSIVE Split(_, _)
Split(s, c) ==
    IF ~InSeq(c, s) THEN << s >>
    ELSE LET i == CHOOSE k \in 1..Len(s) : s[k] = c /\ \A j \in 1..(k - 1) : s[j] # c
         IN  << SubSeq(s, 1, i - 1) >> \o Split(SubSeq(s, i + 1, Len(s)), c)

\* s.strip(c)
RECURSIVE Strip(_, _)
Strip(s, c) ==
    IF s = << >> THEN s
    ELSE IF Head(s) = c THEN Strip(Tail(s), c)
    ELSE IF s[Len(s)] = c THEN Strip(SubSeq(s, 1, Len(s) - 1), c)
    ELSE s

\* sep.join(parts)
RECURSIVE Join(_, _)
Join(sep, parts) ==
    IF parts = << >> THEN << >>
    ELSE IF Len(parts) = 1 THEN parts[1]
    ELSE parts[1] \o sep \o Join(sep, Tail(parts))

\* s.isdigit()
IsDigit(s) == s # << >> /\ \A i \in 1..Len(s) : InSeq(s[i], DIGITS)

\* int(s) of a str of digits
RECURSIVE ParseInt(_)
ParseInt(s) ==
    IF s = << >> THEN 0
    ELSE 10 * ParseInt(SubSeq(s, 1, Len(s) - 1)) + (IndexOf(s[Len(s)], DIGITS) - 1)

\* str(n) of a non-negative int
RECURSIVE FormatInt(_)
FormatInt(n) ==
    IF n < 10 THEN << DIGITS[n + 1] >>
    ELSE FormatInt(n \div 10) \o << DIGITS[(n % 10) + 1] >>

---------------------------------------------------------------------------
(* dict *)

EmptyDict == << >>

Has(d, k) == k \in DOMAIN d

\* d.get(k, default)
Get(d, k, default) == IF k \in DOMAIN d THEN d[k] ELSE default

\* d with d[k] = v
Put(d, k, v) == [x \in (DOMAIN d) \cup {k} |-> IF x = k THEN v ELSE d[x]]

\* d after d.pop(k, ...)
Del(d, k) == [x \in (DOMAIN d) \ {k} |-> d[x]]

\* d after d.setdefault(k, v)
SetDefault(d, k, v) == IF k \in DOMAIN d THEN d ELSE Put(d, k, v)

\* d[k] as an optional value
Opt(d, k) == IF k \in DOMAIN d THEN << d[k] >> ELSE << >>

\* d after d.setdefault(k, v) for an optional v; setting None is left out, as
\* every dict this is used on is filtered for truthy values afterwards
SetDefaultOpt(d, k, v) == IF v = << >> THEN d ELSE SetDefault(d, k, v[1])

\* d after d[k] = v for an optional v (nothing for None)
PutOpt(d, k, v) == IF v = << >> THEN d ELSE Put(d, k, v[1])

\* d after d.setdefault(k, {}).setdefault(k2, v)
SetDefaultIn(d, k, k2, v) == Put(d, k, SetDefault(Get(d, k, << >>), k2, v))

\* d after d.setdefault(k, []).append(v)
AppendTo(d, k, v) == Put(d, k, Append(Get(d, k, << >>), v))

\* d after d.setdefault(new, d.pop(old, default))
Rename(d, old, new, default) == SetDefault(Del(d, old), new, Get(d, old, default))

\* the lists of a list of lists, concatenated
RECURSIVE Concat(_)
Concat(lists) == IF lists = << >> THEN << >> ELSE Head(lists) \o Concat(Tail(lists))

\* d after d.update(e)
Update(d, e) == [x \in (DOMAIN d) \cup (DOMAIN e) |-> IF x \in DOMAIN e THEN e[x] ELSE d[x]]

---------------------------------------------------------------------------
(* Python scalars that are not str: <<"int", n>>, <<"bool", b>>; a value  *)
(* that may be an int or a str carries its type: <<"str", s>>.  An         *)
(* optional value (None or v) is << >> or << v >>.                         *)

PyInt(n) == << "int", n >>

PyStr(s) == << "str", s >>

PyBool(b) == << "bool", b >>

IsStr(v) == v[1] = "str"

\* bool(v) of a tagged scalar
ScalarTruthy(v) ==
    IF v[1] = "int" THEN v[2] # 0
    ELSE IF v[1] = "str" THEN v[2] # << >>
    ELSE v[2]

\* the keys whose values are tagged scalars; every other value is a str, list or dict
ScalarKeys ==
    { "port", "targetPort", "target", "published", "nodePort", "containerPort",
      "replicas", "parallelism", "privileged", "stdin", "stdin_open", "hostPID",
      "hostNetwork", "terminationGracePeriodSeconds", "stop_grace_period" }

\* bool(d[k])
TruthyAt(d, k) == IF k \in ScalarKeys THEN ScalarTruthy(d[k]) ELSE d[k] # << >>

\* {key: val for key, val in d.items() if val}
Truthy(d) == [x \in {k \in DOMAIN d : TruthyAt(d, k)} |-> d[x]]

\* an exception: its class and the message's format string and arguments
Exception(type, format, args) == [type |-> type, format |-> format, args |-> args]

NoException == << >>

\* a record of the module's logger: its level and the message's format and arguments
Log(level, format, args) == [level |-> level, format |-> format, args |-> args]

---------------------------------------------------------------------------
(* Module constants, toscakubed.py lines 14-59 *)

DOCKER_CONTAINER == <<"t", "o", "s", "c", "a", ".", "n", "o", "d", "e", "s", ".", "M", "i", "C", "A", "D", "O", ".", "C", "o", "n", "t", "a", "i", "n", "e", "r", ".", "A", "p", "p", "l", "i", "c", "a", "t", "i", "o", "n", ".", "D", "o", "c", "k", "e", "r">>
CONTAINER_VOLUME == <<"t", "o", "s", "c", "a", ".", "n", "o", "d", "e", "s", ".", "M", "i", "C", "A", "D", "O", ".", "C", "o", "n", "t", "a", "i", "n", "e", "r", ".", "V", "o", "l", "u", "m", "e">>
VOLUME_ATTACHMENT == <<"t", "o", "s", "c", "a", ".", "r", "e", "l", "a", "t", "i", "o", "n", "s", "h", "i", "p", "s", ".", "A", "t", "t", "a", "c", "h", "e", "s", "T", "o">>
KUBERNETES_INTERFACE == <<"K", "u", "b", "e", "r", "n", "e", "t", "e", "s">>

s_Pod == <<"P", "o", "d">>
s_Job == <<"J", "o", "b">>
s_Deployment == <<"D", "e", "p", "l", "o", "y", "m", "e", "n", "t">>
s_StatefulSet == <<"S", "t", "a", "t", "e", "f", "u", "l", "S", "e", "t">>
s_DaemonSet == <<"D", "a", "e", "m", "o", "n", "S", "e", "t">>
s_ReplicaSet == <<"R", "e", "p", "l", "i", "c", "a", "S", "e", "t">>
s_Ingress == <<"I", "n", "g", "r", "e", "s", "s">>
s_Service == <<"S", "e", "r", "v", "i", "c", "e">>
s_PersistentVolume == <<"P", "e", "r", "s", "i", "s", "t", "e", "n", "t", "V", "o", "l", "u", "m", "e">>
s_PersistentVolumeClaim == <<"P", "e", "r", "s", "i", "s", "t", "e", "n", "t", "V", "o", "l", "u", "m", "e", "C", "l", "a", "i", "m">>
s_Volume == <<"V", "o", "l", "u", "m", "e">>
s_Namespace == <<"N", "a", "m", "e", "s", "p", "a", "c", "e">>

s_apps_v1 == <<"a", "p", "p", "s", "/", "v", "1">>
s_batch_v1 == <<"b", "a", "t", "c", "h", "/", "v", "1">>
s_v1 == <<"v", "1">>
s_extensions_v1beta1 == <<"e", "x", "t", "e", "n", "s", "i", "o", "n", "s", "/", "v", "1", "b", "e", "t", "a", "1">>
s_unknown == <<"u", "n", "k", "n", "o", "w", "n">>

s_TCP == <<"T", "C", "P">>
s_NodePort == <<"N", "o", "d", "e", "P", "o", "r", "t">>
s_ClusterIP == <<"C", "l", "u", "s", "t", "e", "r", "I", "P">>
s_LoadBalancer == <<"L", "o", "a", "d", "B", "a", "l", "a", "n", "c", "e", "r">>
s_ExternalIP == <<"E", "x", "t", "e", "r", "n", "a", "l", "I", "P">>
s_clusterip == <<"c", "l", "u", "s", "t", "e", "r", "i", "p">>
s_nodeport == <<"n", "o", "d", "e", "p", "o", "r", "t">>
s_host == <<"h", "o", "s", "t">>
s_ingress == <<"i", "n", "g", "r", "e", "s", "s">>
s_None == <<"N", "o", "n", "e">>
s_10 == <<"1", "0">>
s_dockerhub == <<"d", "o", "c", "k", "e", "r", "h", "u", "b">>
s_1Gi == <<"1", "G", "i">>
s_ReadWriteMany == <<"R", "e", "a", "d", "W", "r", "i", "t", "e", "M", "a", "n", "y">>
s_Retain == <<"R", "e", "t", "a", "i", "n">>
s_default == <<"d", "e", "f", "a", "u", "l", "t">>
s_pv == <<"-", "p", "v">>
s_pvc == <<"-", "p", "v", "c">>

\* the supported workloads and the kind ReplicaSet
SUPPORTED_WORKLOADS_and_ReplicaSet ==
    { s_Pod, s_Job, s_Deployment, s_StatefulSet, s_DaemonSet, s_ReplicaSet }

SUPPORTED_WORKLOADS == { s_Pod, s_Job, s_Deployment, s_StatefulSet, s_DaemonSet }

SWARM_PROPERTIES == << "expose" >>

POD_SPEC_FIELDS ==
    { "activeDeadlineSeconds", "affinity", "automountServiceAccountToken", "dnsConfig",
      "dnsPolicy", "enableServiceLinks", "hostAliases", "hostIPC", "hostNetwork",
      "hostPID", "hostname", "imagePullSecrets", "initContainers", "nodeName",
      "nodeSelector", "priority", "priorityClassName", "readinessGates",
      "restartPolicy", "runtimeClassName", "schedulerName", "securityContext",
      "serviceAccount", "serviceAccountName", "shareProcessNamespace", "subdomain",
      "terminationGracePeriodSeconds", "tolerations", "volumes" }

---------------------------------------------------------------------------
(* Module functions *)

\* the api_versions table of _get_api, in its order
api_versions ==
    << << s_DaemonSet, s_apps_v1 >>, << s_Deployment, s_apps_v1 >>,
       << s_Job, s_batch_v1 >>, << s_Pod, s_v1 >>, << s_ReplicaSet, s_apps_v1 >>,
       << s_StatefulSet, s_apps_v1 >>, << s_Ingress, s_extensions_v1beta1 >>,
       << s_Service, s_v1 >>, << s_PersistentVolume, s_v1 >>,
       << s_PersistentVolumeClaim, s_v1 >>, << s_Volume, s_v1 >>,
       << s_Namespace, s_v1 >> >>

\* _get_api(kind): the apiVersion of the first resource matching kind, ignoring case
_get_api(kind) ==
    LET hits == { i \in 1..Len(api_versions) : Lower(kind) = Lower(api_versions[i][1]) }
    IN  IF hits = {} THEN s_unknown
        ELSE api_versions[CHOOSE i \in hits : \A j \in hits : i <= j][2]

\* what _get_api(kind) logs
_get_api_log(kind) ==
    IF \E i \in 1..Len(api_versions) : Lower(kind) = Lower(api_versions[i][1]) THEN << >>
    ELSE << Log("WARNING", "Unknown kind: {}. Not supported...", << kind >>) >>

\* _get_image without the tests of line 507 on the repositories: the file of
\* the artifact, whatever repository it names
_get_image_of_file(entity_tpl, repositories) ==
    Get(Get(Get(entity_tpl, "artifacts", EmptyDict), "image", EmptyDict), "file", << >>)

\* _get_image(node, repositories): the full path of the image, "" when there is none
_get_image(entity_tpl, repositories) ==
    LET details == Get(Get(entity_tpl, "artifacts", EmptyDict), "image", EmptyDict)
        image   == Get(details, "file", << >>)
        repo    == Get(details, "repository", << >>)
        path    == SelectSeq(repositories, LAMBDA x : x.name = repo)
    IN  IF image = << >> \/ repo = << >> \/ repositories = << >> THEN << >>
        ELSE IF Remove(Remove(Remove(Lower(repo), " "), "-"), "_") # s_dockerhub
                /\ path # << >>
             THEN Join(<< "/" >>, << Strip(path[1].reposit, "/"), image >>)
             ELSE image

\* what _get_image(node, repositories) logs: the warning of its early return
_get_image_log(entity_tpl, repositories) ==
    IF _get_image(entity_tpl, repositories) = << >>
    THEN << Log("WARNING",
                "Missing top-level repository or file/repository in artifact - no image!",
                << >>) >>
    ELSE << >>

\* int(x) of an optional tagged value x: the exception it raises, if any
IntError(x) ==
    IF x = << >>
    THEN Exception("TypeError", "int() argument must be a string, a bytes-like object or a number, not 'NoneType'", << >>)
    ELSE IF IsStr(x[1]) /\ ~IsDigit(x[1][2])
    THEN Exception("ValueError", "invalid literal for int() with base 10: {}", << x[1][2] >>)
    ELSE NoException

\* int(v) of a tagged int or str of digits
IntOf(v) == IF IsStr(v) THEN ParseInt(v[2]) ELSE v[2]

\* "{}".format(x) of an optional tagged value
Format(x) ==
    IF x = << >> THEN s_None
    ELSE IF IsStr(x[1]) THEN x[1][2]
    ELSE FormatInt(x[1][2])

\* The clusterIP check of _build_port_spec (lines 549-561): the value the port
\* spec gets.  Every branch leaves the address as it is; only a first piece
\* "None" rewrites it to "None".
_checked_cluster_ip(cluster_ip) ==
    LET ip_split == Split(cluster_ip, ".")
    IN  IF cluster_ip = << >> THEN cluster_ip
        ELSE IF ip_split[1] = s_10 /\ 96 <= ParseInt(ip_split[2]) /\ ParseInt(ip_split[2]) <= 111
        THEN cluster_ip
        ELSE IF ip_split[1] = s_None THEN s_None
        ELSE cluster_ip

\* what ip_split[1] and int(ip_split[1]) raise in that check, if anything
_cluster_ip_error(cluster_ip) ==
    LET ip_split == Split(cluster_ip, ".")
    IN  IF cluster_ip = << >> \/ ip_split[1] # s_10 THEN NoException
        ELSE IF Len(ip_split) < 2
        THEN Exception("IndexError", "list index out of range", << >>)
        ELSE IntError(<< PyStr(ip_split[2]) >>)

\* what the clusterIP check logs: the warning of its last branch
_cluster_ip_log(cluster_ip) ==
    LET ip_split == Split(cluster_ip, ".")
    IN  IF cluster_ip = << >> THEN << >>
        ELSE IF ip_split[1] = s_10 /\ 96 <= ParseInt(ip_split[2]) /\ ParseInt(ip_split[2]) <= 111
        THEN << >>
        ELSE IF ip_split[1] = s_None THEN << >>
        ELSE << Log("WARNING",
                    "ClusterIP out of range 10.96.x.x - 10.111.x.x Kubernetes will assign one",
                    << >>) >>

\* target of line 541: port.get("targetPort", port.get("target")), optional
_port_target(port) ==
    IF Has(port, "targetPort") THEN << port["targetPort"] >>
    ELSE IF Has(port, "target") THEN << port["target"] >>
    ELSE << >>

\* the argument of int() in line 542:
\* port.get("port", port.get("published", target)), optional
_port_published(port) ==
    IF Has(port, "port") THEN << port["port"] >>
    ELSE IF Has(port, "published") THEN << port["published"] >>
    ELSE _port_target(port)

\* target after lines 546-547: a str of digits becomes an int
_int_if_digits(target) ==
    IF target # << >> /\ IsStr(target[1]) /\ IsDigit(target[1][2])
    THEN << PyInt(ParseInt(target[1][2])) >>
    ELSE target

\* "if node_port:" of line 571
_has_node_port(port) == Has(port, "nodePort") /\ ScalarTruthy(port["nodePort"])

\* port_type of lines 566-583
_port_type(port) ==
    LET type0 == Get(port, "type", Get(port, "mode", << >>))
        type1 == IF _has_node_port(port) /\ type0 = << >> THEN s_NodePort ELSE type0
    IN  IF type1 = s_host THEN s_NodePort
        ELSE IF type1 = s_ingress \/ type1 = << >> THEN s_ClusterIP
        ELSE type1

\* node_port of lines 570-577, optional.  30000 > int(node_port) > 32767 holds
\* of no number, so the value is kept.
_node_port(port) ==
    IF _has_node_port(port) /\ 30000 > IntOf(port["nodePort"])
          /\ IntOf(port["nodePort"]) > 32767
    THEN << >>
    ELSE Opt(port, "nodePort")

\* protocol of line 564
_protocol(port) == Upper(Get(port, "protocol", s_TCP))

\* port_spec of lines 586-596
_port_spec(port) ==
    Truthy(PutOpt(PutOpt(PutOpt(
        [name      |-> Get(port, "name",
                           Format(_int_if_digits(_port_target(port))) \o << "-" >>
                              \o Lower(_protocol(port))),
         port      |-> PyInt(IntOf(_port_published(port)[1])),
         protocol  |-> _protocol(port),
         type      |-> _port_type(port),
         clusterIP |-> _checked_cluster_ip(Get(port, "clusterIP", << >>))],
        "targetPort", _int_if_digits(_port_target(port))),
        "nodePort", _node_port(port)),
        "metadata", Opt(port, "metadata")))

\* _build_port_spec(port, node_name): [exc, ret, log], ret the optional port spec
_build_port_spec(port, node_name) ==
    IF IntError(_port_published(port)) # NoException
    THEN [exc |-> IntError(_port_published(port)), ret |-> << >>, log |-> << >>]
    ELSE IF IntOf(_port_published(port)[1]) = 0
            /\ (_port_target(port) = << >> \/ ~ScalarTruthy(_port_target(port)[1]))
    THEN [exc |-> NoException, ret |-> << >>,
          log |-> << Log("WARNING", "No port in ports of {}", << node_name >>) >>]
    ELSE IF _cluster_ip_error(Get(port, "clusterIP", << >>)) # NoException
    THEN [exc |-> _cluster_ip_error(Get(port, "clusterIP", << >>)), ret |-> << >>,
          log |-> << >>]
    ELSE IF _has_node_port(port) /\ IntError(Opt(port, "nodePort")) # NoException
    THEN [exc |-> IntError(Opt(port, "nodePort")), ret |-> << >>,
          log |-> _cluster_ip_log(Get(port, "clusterIP", << >>))]
    ELSE [exc |-> NoException, ret |-> << _port_spec(port) >>,
          log |-> _cluster_ip_log(Get(port, "clusterIP", << >>))]

\* The loop of _get_service_info (lines 526-534) from the i-th port on, built
\* the results of _build_port_spec by port: [exc, port_list, container, log]
RECURSIVE _service_info_from(_, _, _, _, _, _)
_service_info_from(ports, built, i, port_list, container, log) ==
    IF i > Len(ports)
    THEN [exc |-> NoException, port_list |-> port_list, container |-> container, log |-> log]
    ELSE IF Has(ports[i], "containerPort") /\ ScalarTruthy(ports[i]["containerPort"])
    THEN _service_info_from(ports, built, i + 1, port_list,
                            AppendTo(container, "ports", ports[i]), log)
    ELSE IF built[i].exc # NoException
    THEN [exc |-> built[i].exc, port_list |-> port_list, container |-> container,
          log |-> log \o built[i].log]
    ELSE _service_info_from(ports, built, i + 1, port_list \o built[i].ret, container,
                            log \o built[i].log)

\* _get_service_info(container, node_name): [exc, port_list, container, log]
_get_service_info(container, node_name) ==
    _service_info_from(Get(container, "ports", << >>),
                       [i \in DOMAIN Get(container, "ports", << >>) |->
                           _build_port_spec(container["ports"][i], node_name)],
                       1, << >>, Del(container, "ports"), << >>)

\* metadata of _build_service after lines 407-410.  A setdefault of None
\* leaves a key that the cleanup of line 417 drops.
_service_metadata(service_name, service, resource) ==
    SetDefaultOpt(
        SetDefaultOpt(SetDefault(Get(service, "metadata", EmptyDict), "name", service_name),
                      "namespace", Opt(Get(resource, "metadata", EmptyDict), "namespace")),
        "labels", Opt(Get(resource, "metadata", EmptyDict), "labels"))

\* the spec of a service that selects by the node's name whatever the labels
\* of the inputs are
_service_spec_selecting_run(service, node_name, inputs) ==
    LET spec == [ports    |-> Get(service, "ports", << >>),
                 selector |-> [run |-> node_name]]
        port_type == Get(service, "type", << >>)
        cluster_ip == Get(service, "clusterIP", << >>)
    IN  SetDefaultOpt(IF port_type # s_ClusterIP THEN SetDefault(spec, "type", port_type)
                      ELSE spec,
                      "clusterIP", IF cluster_ip = << >> THEN << >> ELSE << cluster_ip >>)

\* spec of _build_service, lines 420-431
_service_spec(service, node_name, inputs) ==
    LET spec == [ports    |-> Get(service, "ports", << >>),
                 selector |-> Get(Get(inputs, "metadata", EmptyDict), "labels",
                                  [run |-> node_name])]
        port_type == Get(service, "type", << >>)
        cluster_ip == Get(service, "clusterIP", << >>)
    IN  SetDefaultOpt(IF port_type # s_ClusterIP THEN SetDefault(spec, "type", port_type)
                      ELSE spec,
                      "clusterIP", IF cluster_ip = << >> THEN << >> ELSE << cluster_ip >>)

\* _build_service(service_name, service, resource, node_name, inputs):
\* [manifest, service_info, log], the first two optional
_build_service(service_name, service, resource, node_name, inputs) ==
    IF Get(service, "ports", << >>) = << >>
    THEN [manifest |-> << >>, service_info |-> << >>,
          log |-> << Log("WARNING", "No ports in service {}. Will not be created",
                         << service_name >>) >>]
    ELSE [manifest |->
            << [apiVersion |-> s_v1, kind |-> s_Service,
                metadata |-> Truthy(_service_metadata(service_name, service, resource)),
                spec |-> _service_spec(service, node_name, inputs)] >>,
          service_info |->
            << [node |-> node_name, name |-> service_name,
                namespace |->
                  IF Get(_service_metadata(service_name, service, resource),
                         "namespace", << >>) # << >>
                  THEN _service_metadata(service_name, service, resource)["namespace"]
                  ELSE s_default] >>,
          log |-> << >>]

\* services_to_build (an ordered dict: a sequence of [name, entry]) after the
\* body of the loop of _get_service_manifests, lines 239-251, for one port
_add_service_port(services_to_build, port, node_name) ==
    LET metadata == Get(port, "metadata", EmptyDict)
        port_type == Get(port, "type", << >>)
        cluster_ip == Get(port, "clusterIP", << >>)
        service_name == IF Get(metadata, "name", << >>) # << >> THEN metadata["name"]
                        ELSE node_name \o << "-" >> \o Lower(port_type)
        rest == Del(Del(Del(port, "metadata"), "type"), "clusterIP")
        hit == { i \in 1..Len(services_to_build) : services_to_build[i].name = service_name }
    IN  IF hit = {}
        THEN Append(services_to_build,
                    [name |-> service_name,
                     entry |-> [type |-> port_type, metadata |-> metadata,
                                clusterIP |-> cluster_ip, ports |-> << rest >>]])
        ELSE [i \in 1..Len(services_to_build) |->
                 IF i \in hit
                 THEN [services_to_build[i] EXCEPT !.entry.ports = Append(@, rest)]
                 ELSE services_to_build[i]]

\* service_types of line 237
service_types == << s_clusterip, s_nodeport, s_LoadBalancer, s_ExternalIP >>

\* services_to_build after lines 253-258: with no entry under the node's name,
\* the first entry found under "<node>-<s_type>" is popped and set under it
_rename_primary(services_to_build, node_name) ==
    LET keyed(n) == { i \in 1..Len(services_to_build) : services_to_build[i].name = n }
        found == { t \in 1..Len(service_types) :
                     keyed(node_name \o << "-" >> \o service_types[t]) # {} }
    IN  IF keyed(node_name) # {} \/ found = {} THEN services_to_build
        ELSE LET t == CHOOSE x \in found : \A y \in found : x <= y
                 i == CHOOSE x \in keyed(node_name \o << "-" >> \o service_types[t]) : TRUE
             IN  Append(SubSeq(services_to_build, 1, i - 1)
                           \o SubSeq(services_to_build, i + 1, Len(services_to_build)),
                        [name |-> node_name, entry |-> services_to_build[i].entry])

\* services_to_build after the loop of lines 239-251 from the i-th port on
RECURSIVE _group_ports(_, _, _, _)
_group_ports(ports, i, node_name, services_to_build) ==
    IF i > Len(ports) THEN services_to_build
    ELSE _group_ports(ports, i + 1, node_name,
                      _add_service_port(services_to_build, ports[i], node_name))

\* the results of _build_service in the loop of lines 260-263, by entry
_built_services(services_to_build, resource, node_name, inputs) ==
    [i \in 1..Len(services_to_build) |->
        _build_service(services_to_build[i].name, services_to_build[i].entry,
                       resource, node_name, inputs)]

\* lines 260-267 on these results: what is appended and logged
_append_services(info, built) ==
    [exc       |-> NoException,
     container |-> info.container,
     manifests |-> Concat([i \in 1..Len(built) |-> built[i].manifest]),
     services  |-> Concat([i \in 1..Len(built) |-> built[i].service_info]),
     log       |-> info.log \o Concat([i \in 1..Len(built) |-> built[i].log])]

\* _get_service_manifests from line 236 on, info the result of _get_service_info
_build_services(node, resource, inputs, info) ==
    IF info.exc # NoException
    THEN [exc |-> info.exc, container |-> info.container,
          manifests |-> << >>, services |-> << >>, log |-> info.log]
    ELSE _append_services(info,
             _built_services(_rename_primary(_group_ports(info.port_list, 1, node.name, << >>),
                                             node.name),
                             resource, node.name, inputs))

\* KubernetesAdaptor._get_service_manifests(node, container, resource, inputs):
\* [exc, container, manifests, services, log], manifests and services what it
\* appends to self.manifests and self.services
_get_service_manifests(node, container, resource, inputs) ==
    _build_services(node, resource, inputs, _get_service_info(container, node.name))

\* s.split(): the words of s
SplitWords(s) == SelectSeq(Split(s, " "), LAMBDA w : w # << >>)

\* the env list of _get_container, lines 461-464.  Iterating the dict yields
\* its keys, and "for key, value in" unpacks each key: a key of two
\* characters gives a name and a value, any other key raises.
RECURSIVE _env(_)
_env(keys) ==
    IF keys = << >> THEN << >>
    ELSE << [name |-> << keys[1][1] >>, value |-> << keys[1][2] >>] >> \o _env(Tail(keys))

\* properties after lines 453-455
_without_swarm(properties) ==
    [x \in (DOMAIN properties) \ { SWARM_PROPERTIES[i] : i \in DOMAIN SWARM_PROPERTIES } |->
        properties[x]]

\* what lines 453-455 log
_swarm_log(properties) ==
    [i \in DOMAIN SelectSeq(SWARM_PROPERTIES,
                            LAMBDA key : Has(properties, key) /\ TruthyAt(properties, key)) |->
        Log("WARNING", "Removed Swarm-option {}",
            << SelectSeq(SWARM_PROPERTIES,
                         LAMBDA key : Has(properties, key) /\ TruthyAt(properties, key))[i] >>)]

\* properties after properties.setdefault(new, properties.pop(old, "").split())
_pop_words(properties, old, new) ==
    SetDefault(Del(properties, old), new, SplitWords(Get(properties, old, << >>)))

\* properties after lines 461-465
_pop_environment(properties) ==
    SetDefault(Del(properties, "environment"), "env",
               _env(Get(properties, "environment", << >>)))

\* properties after lines 474-478
_pop_privileged(properties) ==
    IF Has(properties, "privileged") /\ ScalarTruthy(properties["privileged"])
    THEN Put(Del(properties, "privileged"), "securityContext",
             SetDefault(Get(properties, "securityContext", EmptyDict), "privileged",
                        properties["privileged"]))
    ELSE Del(properties, "privileged")

\* properties after properties.setdefault(new, properties.pop(old, None)); a
\* setdefault of None leaves a key that the filter of line 488 drops
_pop_optional(properties, old, new) ==
    IF Has(properties, old) THEN SetDefault(Del(properties, old), new, properties[old])
    ELSE properties

\* the dict _get_container returns: properties after lines 450-486, filtered
_container_spec(node, properties, image) ==
    Truthy(
      _pop_optional(
        _pop_optional(
          Del(Del(
            _pop_privileged(
              Del(Del(
                _pop_environment(
                  _pop_words(
                    _pop_words(
                      Rename(_without_swarm(SetDefault(properties, "image", image)),
                             "container_name", "name", node.name),
                      "entrypoint", "command"),
                    "cmd", "args")),
                "labels"), "stop_grace_period")),
            "pid"), "network_mode"),
          "stdin_open", "stdin"),
        "healthcheck", "livenessProbe"))

\* inputs after lines 468-470
_with_docker_labels(inputs, docker_labels) ==
    IF docker_labels = EmptyDict THEN inputs
    ELSE Put(inputs, "metadata",
             Put(Get(inputs, "metadata", EmptyDict), "labels",
                 Update(Get(Get(inputs, "metadata", EmptyDict), "labels", EmptyDict),
                        docker_labels)))

\* inputs after lines 471-473
_with_grace_period(inputs, properties) ==
    IF Has(properties, "stop_grace_period") /\ ScalarTruthy(properties["stop_grace_period"])
    THEN SetDefault(inputs, "terminationGracePeriodSeconds", properties["stop_grace_period"])
    ELSE inputs

\* inputs after lines 479-481 and after lines 482-484
_with_host_flag(inputs, properties, key, flag) ==
    IF Get(properties, key, << >>) = s_host THEN SetDefault(inputs, flag, PyBool(TRUE))
    ELSE inputs

\* inputs as _get_container leaves it
_container_inputs(properties, inputs) ==
    _with_host_flag(
        _with_host_flag(
            _with_grace_period(
                _with_docker_labels(inputs, Get(properties, "labels", EmptyDict)),
                properties),
            properties, "pid", "hostPID"),
        properties, "network_mode", "hostNetwork")

\* _get_container(node, properties, repositories, inputs): [exc, container, inputs, log]
_get_container(node, properties, repositories, inputs) ==
    IF _get_image(node.entity_tpl, repositories) = << >>
    THEN [exc |-> Exception("ValueError", "No image specified for {}!", << node.name >>),
          container |-> EmptyDict, inputs |-> inputs,
          log |-> _get_image_log(node.entity_tpl, repositories)]
    ELSE IF \E k \in DOMAIN Get(properties, "environment", << >>) :
               Len(properties["environment"][k]) # 2
    THEN [exc |-> Exception("ValueError", "wrong number of values to unpack", << >>),
          container |-> EmptyDict, inputs |-> inputs,
          log |-> _get_image_log(node.entity_tpl, repositories) \o _swarm_log(properties)]
    ELSE [exc |-> NoException,
          container |-> _container_spec(node, properties,
                                        _get_image(node.entity_tpl, repositories)),
          inputs |-> _container_inputs(properties, inputs),
          log |-> _get_image_log(node.entity_tpl, repositories) \o _swarm_log(properties)]

\* _separate_data(key_names, container): [data, container]
_separate_data(key_names, container) ==
    [data |-> [x \in key_names \cap DOMAIN container |-> container[x]],
     container |-> [x \in (DOMAIN container) \ key_names |-> container[x]]]

---------------------------------------------------------------------------
(* KubernetesAdaptor.  self is the record of the adaptor's attributes the   *)
(* method reads; what a method changes is in the record it returns.        *)

\* metadata of _get_resource, lines 351-354
_resource_metadata(self, name, inputs) ==
    SetDefaultIn(
        SetDefault(SetDefault(Get(inputs, "metadata", EmptyDict),
                              "name", Get(inputs, "name", name)),
                   "labels", Get(inputs, "labels", EmptyDict)),
        "labels", "app", self.short_id)

\* self._get_resource(name, inputs, kind): [resource, inputs, log], inputs as
\* the pops leave it
_get_resource(self, name, inputs, default_kind) ==
    [resource |-> [apiVersion |-> Get(inputs, "apiVersion",
                                      _get_api(Get(inputs, "kind", default_kind))),
                   kind       |-> Get(inputs, "kind", default_kind),
                   metadata   |-> _resource_metadata(self, name, inputs)],
     inputs   |-> [x \in (DOMAIN inputs) \ { "kind", "apiVersion", "metadata", "name", "labels" }
                      |-> inputs[x]],
     log      |-> _get_api_log(Get(inputs, "kind", default_kind))]

\* whether a requirement attaches the related node at a location (lines 286-292)
_attaches(requirement, related_name) ==
    LET volume == Get(requirement, "volume", EmptyDict)
        relationship == Get(volume, "relationship", EmptyDict)
        path == Get(Get(relationship, "properties", EmptyDict), "location", << >>)
    IN  /\ path # << >>
        /\ Get(relationship, "type", << >>) = VOLUME_ATTACHMENT
        /\ Get(volume, "node", << >>) = related_name

\* volume_mount_list of lines 285-294 for one related node
RECURSIVE _volume_mount_list(_, _)
_volume_mount_list(requirements, related_name) ==
    IF requirements = << >> THEN << >>
    ELSE (IF _attaches(Head(requirements), related_name)
          THEN << [name |-> related_name,
                   mountPath |-> Head(requirements)["volume"]["relationship"]["properties"]["location"]] >>
          ELSE << >>)
         \o _volume_mount_list(Tail(requirements), related_name)

\* self._get_volumes(container_node), over the related nodes given:
\* [volumes, volume_mounts]
RECURSIVE _get_volumes_of(_, _, _)
_get_volumes_of(self, related, requirements) ==
    IF related = << >> THEN [volumes |-> << >>, volume_mounts |-> << >>]
    ELSE LET rest == _get_volumes_of(self, Tail(related), requirements)
             pvc_name == Get(self.volumes, Head(related), << >>)
             volume_spec == [name |-> Head(related),
                             persistentVolumeClaim |-> [claimName |-> pvc_name]]
             volume_mount_list == _volume_mount_list(requirements, Head(related))
         IN  IF pvc_name = << >> \/ volume_mount_list = << >> THEN rest
             ELSE [volumes |-> << volume_spec >> \o rest.volumes,
                   volume_mounts |-> volume_mount_list \o rest.volume_mounts]

\* self._get_volumes(container_node): [volumes, volume_mounts]; the related
\* nodes are given by name
_get_volumes(self, container_node) ==
    _get_volumes_of(self, container_node.related_nodes, container_node.requirements)

\* The spec of the workload by kind, lines 213-225
_workload_spec(kind, container, pod_metadata, pod_inputs, pod_labels, workload_inputs) ==
    LET pod_spec == Update([containers |-> << container >>], pod_inputs)
        selector == [matchLabels |-> pod_labels]
    IN  IF kind = s_Pod
        THEN Update([containers |-> << container >>], workload_inputs)
        ELSE IF kind = s_Job
        THEN Update([template |-> [spec |-> pod_spec]], workload_inputs)
        ELSE Update([selector |-> selector,
                     template |-> [metadata |-> pod_metadata, spec |-> pod_spec]],
                    workload_inputs)

\* What _create_manifests gives when it appends nothing:
\*   exc        the exception it raises, if any
\*   manifests, services   what it appends to self.manifests, self.services
\*   create, configure     the inputs of the two operations as it leaves them
\*   volumeMounts          the node's volumeMounts property as it leaves it (optional)
_no_manifests(exc, log, create, configure) ==
    [exc |-> exc, manifests |-> << >>, services |-> << >>, log |-> log,
     create |-> create, configure |-> configure, volumeMounts |-> << >>]

\* _create_manifests, lines 190-230: r, c, s, v the results of _get_resource,
\* _get_container, _get_service_manifests and _get_volumes, sep that of
\* _separate_data.  properties is not the container, which is a filtered copy
\* of it: the mounts added to properties reach the container only through a
\* volumeMounts list the two share, that is a non-empty volumeMounts property.
_append_workload(node, r, c, s, v, sep) ==
    LET pod_inputs1 == IF v.volumes # << >>
                       THEN Put(c.inputs, "volumes",
                                Get(c.inputs, "volumes", << >>) \o v.volumes)
                       ELSE c.inputs
        mounted   == v.volume_mounts # << >> /\ Has(node.properties, "volumeMounts")
        vol_list  == Get(node.properties, "volumeMounts", << >>) \o v.volume_mounts
        container == IF mounted /\ node.properties["volumeMounts"] # << >>
                     THEN Put(s.container, "volumeMounts", vol_list)
                     ELSE s.container
        pod_metadata ==
            SetDefaultOpt(SetDefault(Get(pod_inputs1, "metadata", EmptyDict),
                                     "labels", [run |-> node.name]),
                          "namespace", Opt(r.resource["metadata"], "namespace"))
        pod_inputs == Update(Del(pod_inputs1, "metadata"), sep.data)
    IN  [exc       |-> NoException,
         manifests |-> s.manifests \o
                       << SetDefault(r.resource, "spec",
                              _workload_spec(r.resource["kind"], container,
                                             Truthy(pod_metadata), Truthy(pod_inputs),
                                             pod_metadata["labels"], sep.container)) >>,
         services  |-> s.services,
         log       |-> r.log \o c.log \o s.log,
         create    |-> sep.container,
         configure |-> pod_inputs,
         volumeMounts |-> IF mounted THEN << vol_list >> ELSE << >>]

\* _create_manifests from line 190 on
_create_pod(self, node, r, c, s) ==
    IF s.exc # NoException
    THEN _no_manifests(s.exc, r.log \o c.log \o s.log, r.inputs, c.inputs)
    ELSE _append_workload(node, r, c, s, _get_volumes(self, node),
                          _separate_data(POD_SPEC_FIELDS, r.inputs))

\* _create_manifests from line 188 on
_create_services(self, node, pod_inputs, r, c) ==
    IF c.exc # NoException
    THEN _no_manifests(c.exc, r.log \o c.log, r.inputs, pod_inputs)
    ELSE _create_pod(self, node, r, c,
                     _get_service_manifests(node, c.container, r.resource, c.inputs))

\* _create_manifests from line 173 on
_create_workload(self, node, repositories, pod_inputs, r) ==
    IF r.resource["kind"] \notin SUPPORTED_WORKLOADS
    THEN _no_manifests(NoException,
             r.log \o << Log("WARNING",
                             "Kubernetes *kind: {}* is unsupported - no manifest created",
                             << r.resource["kind"] >>) >>,
             r.inputs, pod_inputs)
    ELSE _create_services(self, node, pod_inputs, r,
                          _get_container(node, node.properties, repositories, pod_inputs))

\* self._create_manifests(node, interface, repositories)
_create_manifests(self, node, interface, repositories) ==
    _create_workload(self, node, repositories, Get(interface, "configure", EmptyDict),
                     _get_resource(self, node.name, Get(interface, "create", EmptyDict),
                                   s_Deployment))

\* name of lines 304-306 and 324-326
_manifest_name(name, inputs, suffix) ==
    IF Get(Get(inputs, "metadata", EmptyDict), "name", Get(inputs, "name", << >>)) # << >>
    THEN Get(Get(inputs, "metadata", EmptyDict), "name", Get(inputs, "name", << >>))
    ELSE name \o suffix

\* inputs after lines 307-309 and 327-329
_with_volume_label(inputs, name) ==
    Put(inputs, "metadata", SetDefaultIn(Get(inputs, "metadata", EmptyDict),
                                         "labels", "volume", name))

\* spec of _create_persistent_volume after lines 315-317
_persistent_volume_spec(inputs, size) ==
    SetDefault(AppendTo(SetDefaultIn(inputs, "capacity", "storage", size),
                        "accessModes", s_ReadWriteMany),
               "persistentVolumeReclaimPolicy", s_Retain)

\* _create_persistent_volume from line 311 on, r the result of _get_resource
_persistent_volume(r, size) ==
    [manifest |-> SetDefault(r.resource, "spec", _persistent_volume_spec(r.inputs, size)),
     labels   |-> Get(Get(r.resource, "metadata", EmptyDict), "labels", EmptyDict),
     inputs   |-> _persistent_volume_spec(r.inputs, size),
     log      |-> r.log]

\* self._create_persistent_volume(name, inputs, size): [manifest, labels, inputs, log]
_create_persistent_volume(self, name, inputs, size) ==
    _persistent_volume(
        _get_resource(self, _manifest_name(name, inputs, s_pv),
                      _with_volume_label(inputs, _manifest_name(name, inputs, s_pv)),
                      s_PersistentVolume),
        size)

\* spec of _create_persistent_volume_claim after lines 335-339
_persistent_volume_claim_spec(inputs, labels, size) ==
    SetDefaultIn(
        AppendTo(Put(inputs, "resources",
                     SetDefaultIn(Get(inputs, "resources", EmptyDict),
                                  "requests", "storage", size)),
                 "accessModes", s_ReadWriteMany),
        "selector", "matchLabels", labels)

\* _create_persistent_volume_claim from line 332 on, r the result of _get_resource
_persistent_volume_claim(r, name, labels, size) ==
    [manifest |-> SetDefault(r.resource, "spec",
                             _persistent_volume_claim_spec(r.inputs, labels, size)),
     name     |-> name,
     inputs   |-> _persistent_volume_claim_spec(r.inputs, labels, size),
     log      |-> r.log]

\* self._create_persistent_volume_claim(name, inputs, labels, size):
\* [manifest, name, inputs, log]
_create_persistent_volume_claim(self, name, inputs, labels, size) ==
    _persistent_volume_claim(
        _get_resource(self, _manifest_name(name, inputs, s_pvc),
                      _with_volume_label(inputs, _manifest_name(name, inputs, s_pvc)),
                      s_PersistentVolumeClaim),
        _manifest_name(name, inputs, s_pvc), labels, size)

\* kube_interface of lines 100-102: the node's operations under the Kubernetes interface
_kube_interface(node) ==
    SelectSeq(node.interfaces, LAMBDA x : Contains(KUBERNETES_INTERFACE, x.type))

\* interface of lines 98-104: operation name -> operation.inputs or {}; of two
\* operations of one name the later stays
_interface(node) ==
    LET ops == _kube_interface(node)
        last(n) == CHOOSE i \in 1..Len(ops) :
                       ops[i].name = n /\ \A j \in (i + 1)..Len(ops) : ops[j].name # n
    IN  [n \in { ops[i].name : i \in 1..Len(ops) } |-> ops[last(n)].inputs]

\* The node after the code changed, in place, the inputs of its operation
\* `name`.  "operation.inputs or {}" is the operation's own dict when that is
\* not empty, and a new dict, lost after the call, when it is.
_with_inputs(node, name, inputs) ==
    LET ops == node.interfaces
        shared(i) == /\ Contains(KUBERNETES_INTERFACE, ops[i].type)
                     /\ ops[i].name = name
                     /\ \A j \in (i + 1)..Len(ops) :
                           ~(Contains(KUBERNETES_INTERFACE, ops[j].type) /\ ops[j].name = name)
                     /\ ops[i].inputs # EmptyDict
    IN  [node EXCEPT !.interfaces =
            [i \in 1..Len(ops) |-> IF shared(i) THEN [ops[i] EXCEPT !.inputs = inputs]
                                   ELSE ops[i]]]

\* "_" in name
HasUnderscore(name) == InSeq("_", name)

\* line 106: the node is handled as a workload
IsWorkloadNode(node) ==
    Contains(DOCKER_CONTAINER, node.type) /\ _interface(node) # EmptyDict

\* line 120: the node is handled as a volume
IsVolumeNode(node) ==
    /\ ~IsWorkloadNode(node)
    /\ Contains(CONTAINER_VOLUME, node.type) /\ _interface(node) # EmptyDict

\* the volume's name without its name property: the node's name
VolumeName_of_node(node) == node.name

\* line 121: the volume's name, node.get_property_value("name") or node.name
VolumeName(node) ==
    IF Get(node.properties, "name", << >>) # << >> THEN node.properties["name"]
    ELSE node.name

\* line 133: the volume's size, node.get_property_value("size") or "1Gi"
VolumeSize(node) ==
    IF Get(node.properties, "size", << >>) # << >> THEN node.properties["size"]
    ELSE s_1Gi

\* The result of the loop's body of translate for one node:
\*   exc        the exception raised, if any
\*   manifests, services   what is appended to self.manifests, self.services
\*   volumes    self.volumes after it
\*   node       the node template after it (inputs and properties changed in place)
_node_result(exc, appended, built, bound, logged, node) ==
    [exc |-> exc, manifests |-> appended, services |-> built, volumes |-> bound,
     log |-> logged, node |-> node]

\* lines 107-118, w the result of _create_manifests
_translate_workload(self, node, w) ==
    IF HasUnderscore(node.name)
    THEN _node_result(
             Exception("ValueError",
                       "ERROR: Use of underscores in {} workload name prohibited",
                       << node.name >>),
             << >>, << >>, self.volumes,
             << Log("ERROR", "ERROR: Use of underscores in {} workload name prohibited",
                    << node.name >>) >>,
             node)
    ELSE _node_result(w.exc, w.manifests, w.services, self.volumes, w.log,
             IF w.volumeMounts = << >>
             THEN _with_inputs(_with_inputs(node, "create", w.create),
                               "configure", w.configure)
             ELSE [_with_inputs(_with_inputs(node, "create", w.create),
                                "configure", w.configure)
                     EXCEPT !.properties = Put(@, "volumeMounts", w.volumeMounts[1])])

\* lines 137-142, pv and pvc the results of _create_persistent_volume and
\* _create_persistent_volume_claim
_bind_volume(self, node, pv, pvc) ==
    _node_result(NoException, << pv.manifest, pvc.manifest >>, << >>,
                 SetDefault(self.volumes, node.name, pvc.name), pv.log \o pvc.log,
                 _with_inputs(_with_inputs(node, "create", pv.inputs),
                              "configure", pvc.inputs))

\* lines 137-142, pv the result of _create_persistent_volume
_claim_volume(self, node, interface, pv) ==
    _bind_volume(self, node, pv,
                 _create_persistent_volume_claim(self, VolumeName(node),
                     Get(interface, "configure", EmptyDict), pv.labels, VolumeSize(node)))

\* lines 121-142
_translate_volume(self, node, interface) ==
    IF HasUnderscore(VolumeName(node))
    THEN _node_result(
             Exception("ValueError",
                       "ERROR: Use of underscores in {} volume name prohibited",
                       << VolumeName(node) >>),
             << >>, << >>, self.volumes,
             << Log("ERROR", "ERROR: Use of underscores in {} volume name prohibited",
                    << VolumeName(node) >>) >>,
             node)
    ELSE _claim_volume(self, node, interface,
             _create_persistent_volume(self, VolumeName(node),
                 Get(interface, "create", EmptyDict), VolumeSize(node)))

\* The body of the loop of translate (lines 98-142) for one node
_translate_node(self, node, repositories) ==
    IF IsWorkloadNode(node)
    THEN _translate_workload(self, node,
             _create_manifests(self, node, _interface(node), repositories))
    ELSE IF IsVolumeNode(node)
    THEN _translate_volume(self, node, _interface(node))
    ELSE _node_result(NoException, << >>, << >>, self.volumes, << >>, node)

\* the order without reverse=True: the smaller type first, equal types in the
\* order of nodes
_before_ascending(nodes, i, j) ==
    \/ StrLess(nodes[i].type, nodes[j].type)
    \/ nodes[i].type = nodes[j].type /\ i < j

\* whether node i comes before node j in sorted(nodes, key=lambda x: x.type,
\* reverse=True): the greater type first, equal types in the order of nodes
_before(nodes, i, j) ==
    \/ StrLess(nodes[j].type, nodes[i].type)
    \/ nodes[i].type = nodes[j].type /\ i < j

\* the positions in nodes of sorted(nodes, key=lambda x: x.type, reverse=True)
_sorted(nodes) ==
    [p \in 1..Len(nodes) |->
        CHOOSE i \in 1..Len(nodes) :
            Cardinality({ j \in 1..Len(nodes) : j # i /\ _before(nodes, j, i) }) = p - 1]

---------------------------------------------------------------------------
(* The adaptor and its surroundings *)

VARIABLES
    tpl,        \* self.tpl: [nodetemplates, repositories], the parsed template
    short_id,   \* self.short_id, the application id
    status,     \* self.status
    manifests,  \* self.manifests
    services,   \* self.services
    volumes,    \* self.volumes: node name -> claim name
    file,       \* the file at self.manifest_path: << >> or << its content >>
    log,        \* what the latest call logged
    pc,         \* "idle", or "translating" inside the loop of translate
    queue,      \* the nodes the loop of translate has still to visit, as positions
    error,      \* the exception the latest translate call raised, or NoException
    dumps,      \* the calls of utils.dump_list_yaml made by the latest translate call
    produced,   \* the number of manifests the latest translate call appended
    runs,       \* the translate calls made
    results     \* self.manifests at the return of each translate call that returned

vars == << tpl, short_id, status, manifests, services, volumes, file, log, pc, queue,
           error, dumps, produced, runs, results >>

Self == [short_id |-> short_id, manifests |-> manifests, services |-> services,
         volumes |-> volumes]

\* The translate calls the model follows on one adaptor
MaxRuns == 2

\* translate, lines 91-97: up to the loop
TranslateBegin ==
    /\ pc = "idle"
    /\ runs < MaxRuns
    /\ runs' = runs + 1
    /\ status' = "Translating..."
    /\ log' = << Log("INFO", "Translating into Kubernetes Manifests", << >>) >>
    /\ queue' = _sorted(tpl.nodetemplates)
    /\ pc' = "translating"
    /\ error' = NoException
    /\ dumps' = 0
    /\ produced' = 0
    /\ UNCHANGED << tpl, short_id, manifests, services, volumes, file, results >>

\* The assignments of the loop's body for the node at position n, r the result
\* of the body; an exception ends the call
_loop_body(n, r) ==
    /\ tpl' = [tpl EXCEPT !.nodetemplates[n] = r.node]
    /\ manifests' = manifests \o r.manifests
    /\ produced' = produced + Len(r.manifests)
    /\ services' = services \o r.services
    /\ volumes' = r.volumes
    /\ log' = log \o r.log
    /\ error' = r.exc
    /\ pc' = IF r.exc = NoException THEN "translating" ELSE "idle"
    /\ queue' = IF r.exc = NoException THEN Tail(queue) ELSE << >>

\* translate, lines 97-142: the loop's body for the next node
TranslateNode ==
    /\ pc = "translating"
    /\ queue # << >>
    /\ _loop_body(Head(queue),
                  _translate_node(Self, tpl.nodetemplates[Head(queue)], tpl.repositories))
    /\ UNCHANGED << short_id, status, file, dumps, runs, results >>

\* translate after the loop without the test of line 144: the output is
\* written whatever the collection holds
TranslateEnd_without_test ==
    /\ pc = "translating"
    /\ queue = << >>
    /\ file' = << manifests >>
    /\ dumps' = dumps + 1
    /\ log' = Append(log, Log("INFO", "Translation complete", << >>))
    /\ status' = "Translated"
    /\ pc' = "idle"
    /\ results' = Append(results, manifests)
    /\ UNCHANGED << tpl, short_id, manifests, services, volumes, queue, error, produced,
                    runs >>

\* translate, lines 144-152: after the loop
TranslateEnd ==
    /\ pc = "translating"
    /\ queue = << >>
    /\ IF manifests = << >>
       THEN /\ log' = Append(log, Log("INFO", "No nodes to orchestrate with Kubernetes", << >>))
            /\ status' = "Skipped Translation"
            /\ UNCHANGED << file, dumps >>
       ELSE /\ file' = << manifests >>
            /\ dumps' = dumps + 1
            /\ log' = Append(log, Log("INFO", "Translation complete", << >>))
            /\ status' = "Translated"
    /\ pc' = "idle"
    /\ results' = Append(results, manifests)
    /\ UNCHANGED << tpl, short_id, manifests, services, volumes, queue, error, produced,
                    runs >>

\* cleanup, lines 154-164
Cleanup ==
    /\ pc = "idle"
    /\ log' = << Log("INFO", "Cleaning-up...", << >>) >>
               \o (IF file = << >>
                   THEN << Log("WARNING", "Could not remove manifest file", << >>) >>
                   ELSE << >>)
    /\ file' = << >>
    /\ status' = "Clean!"
    /\ UNCHANGED << tpl, short_id, manifests, services, volumes, pc, queue, error, dumps,
                    produced, runs, results >>

Next == TranslateBegin \/ TranslateNode \/ TranslateEnd \/ Cleanup

---------------------------------------------------------------------------
(* The templates the adaptor is constructed on *)

s_web == <<"w", "e", "b">>
s_api == <<"a", "p", "i">>
s_my_app == <<"m", "y", "_", "a", "p", "p">>
s_data == <<"d", "a", "t", "a">>
s_my_vol == <<"m", "y", "_", "v", "o", "l">>
s_disk == <<"d", "i", "s", "k">>
s_my_disk == <<"m", "y", "_", "d", "i", "s", "k">>
s_vm == <<"v", "m">>
s_front == <<"f", "r", "o", "n", "t">>
s_nginx == <<"n", "g", "i", "n", "x">>
s_docker_hub == <<"d", "o", "c", "k", "e", "r", "_", "h", "u", "b">>
s_private == <<"p", "r", "i", "v", "a", "t", "e">>
s_registry == <<"r", "e", "g", "i", "s", "t", "r", "y", ".", "l", "o", "c", "a", "l", "/">>
s_Standard == <<"S", "t", "a", "n", "d", "a", "r", "d">>
s_Compute == <<"t", "o", "s", "c", "a", ".", "n", "o", "d", "e", "s", ".", "M", "i", "C", "A", "D", "O", ".", "C", "o", "m", "p", "u", "t", "e">>
s_HostedOn == <<"t", "o", "s", "c", "a", ".", "r", "e", "l", "a", "t", "i", "o", "n", "s", "h", "i", "p", "s", ".", "H", "o", "s", "t", "e", "d", "O", "n">>
s_172_16_0_5 == <<"1", "7", "2", ".", "1", "6", ".", "0", ".", "5">>
s_10_100_5_5 == <<"1", "0", ".", "1", "0", "0", ".", "5", ".", "5">>
s_var_data == <<"/", "v", "a", "r", "/", "d", "a", "t", "a">>
s_var_log == <<"/", "v", "a", "r", "/", "l", "o", "g">>
s_UDP == <<"u", "d", "p">>
s_5Gi == <<"5", "G", "i">>
s_stack == <<"s", "t", "a", "c", "k">>

\* one operation of a node's interfaces
Operation(type, name, inputs) == [type |-> type, name |-> name, inputs |-> inputs]

NodeTemplate(name, type, interfaces, properties, entity_tpl, requirements, related_nodes) ==
    [name |-> name, type |-> type, interfaces |-> interfaces, properties |-> properties,
     entity_tpl |-> entity_tpl, requirements |-> requirements,
     related_nodes |-> related_nodes]

\* the artifacts of a node: an image of Docker Hub, one of a private
\* repository, one without repository, none
HubImage == [artifacts |-> [image |-> [file |-> s_nginx, repository |-> s_docker_hub]]]

PrivateImage == [artifacts |-> [image |-> [file |-> s_nginx, repository |-> s_private]]]

ImageWithoutRepository == [artifacts |-> [image |-> [file |-> s_nginx]]]

ImageWithoutFile == [artifacts |-> [image |-> [repository |-> s_docker_hub]]]

NoArtifacts == EmptyDict

Repositories ==
    << [name |-> s_docker_hub, reposit |-> s_registry],
       [name |-> s_private, reposit |-> s_registry] >>

\* a container node with the operations create and configure of the
\* Kubernetes interface
Container(name, create, configure, properties, entity_tpl, requirements, related_nodes) ==
    NodeTemplate(name, DOCKER_CONTAINER,
                 << Operation(KUBERNETES_INTERFACE, "create", create),
                    Operation(KUBERNETES_INTERFACE, "configure", configure) >>,
                 properties, entity_tpl, requirements, related_nodes)

\* a volume node with the operation create of the Kubernetes interface
Volume(name, properties, create) ==
    NodeTemplate(name, CONTAINER_VOLUME,
                 << Operation(KUBERNETES_INTERFACE, "create", create) >>,
                 properties, EmptyDict, << >>, << >>)

\* The nodes of the topologies that exercise the loop of translate: containers
\* by name, kind and image, one of them outside the Kubernetes interface;
\* volumes by node name and name property; a node of another type
DriverNodes ==
    { Container(s_web, create, EmptyDict, EmptyDict, entity_tpl, << >>, << >>) :
        create \in { EmptyDict, [kind |-> s_ReplicaSet] },
        entity_tpl \in { HubImage, NoArtifacts } }
    \cup
    { Container(s_my_app, EmptyDict, EmptyDict, EmptyDict, HubImage, << >>, << >>),
      Container(s_api, [kind |-> s_Pod, replicas |-> PyInt(2)], EmptyDict,
                [ports |-> << [port |-> PyInt(8080), targetPort |-> PyInt(80)] >>],
                PrivateImage, << >>, << >>),
      Container(s_api, [kind |-> s_Job], EmptyDict, EmptyDict,
                ImageWithoutRepository, << >>, << >>),
      Container(s_api, EmptyDict, [hostname |-> s_api], EmptyDict,
                ImageWithoutFile, << >>, << >>),
      NodeTemplate(s_web, DOCKER_CONTAINER,
                   << Operation(s_Standard, "create", [kind |-> s_Pod]) >>,
                   EmptyDict, HubImage, << >>, << >>),
      NodeTemplate(s_vm, s_Compute, << Operation(KUBERNETES_INTERFACE, "create", EmptyDict) >>,
                   EmptyDict, EmptyDict, << >>, << >>),
      Volume(s_data, EmptyDict, EmptyDict),
      Volume(s_data, [name |-> s_my_disk], EmptyDict),
      Volume(s_my_vol, EmptyDict, [name |-> s_disk]),
      Volume(s_my_vol, [name |-> s_disk, size |-> s_5Gi], EmptyDict) }

\* The nodes of one topology of these
MaxNodes == 2

\* the lists of at most MaxNodes nodes of the set, no two of one name
NodeLists(nodes) ==
    UNION { { l \in [1..n -> nodes] : \A i, j \in 1..n : l[i].name = l[j].name => i = j } :
            n \in 0..MaxNodes }

\* topologies of these nodes with the repositories, and of one node without
DriverTemplates ==
    { [nodetemplates |-> l, repositories |-> Repositories] : l \in NodeLists(DriverNodes) }
    \cup
    { [nodetemplates |-> << n >>, repositories |-> << >>] : n \in DriverNodes }

\* a requirement of a container on the volume node `node`
Requirement(node, relationship) ==
    [volume |-> [node |-> node, relationship |-> relationship]]

\* The requirements of the container of a volume topology: the volume attached
\* at a location, attached without one, hosted, another node attached, none
VolumeRequirements ==
    { << Requirement(s_data, [type |-> VOLUME_ATTACHMENT,
                              properties |-> [location |-> s_var_data]]) >>,
      << Requirement(s_data, [type |-> VOLUME_ATTACHMENT]) >>,
      << Requirement(s_data, [type |-> s_HostedOn,
                              properties |-> [location |-> s_var_data]]) >>,
      << Requirement(s_disk, [type |-> VOLUME_ATTACHMENT,
                              properties |-> [location |-> s_var_log]]) >>,
      << >> }

\* Topologies of a container web of each supported kind and, or not, the
\* volume data it is related to, or not
VolumeTemplates ==
    { [nodetemplates |->
         << Container(s_web, create, EmptyDict, properties, HubImage, requirements, related) >>
            \o volume,
       repositories |-> Repositories] :
        create \in { EmptyDict, [kind |-> s_Pod], [kind |-> s_Job],
                     [kind |-> s_StatefulSet], [kind |-> s_DaemonSet] },
        properties \in { EmptyDict,
                         [volumeMounts |-> << [name |-> s_disk, mountPath |-> s_var_log] >>] },
        requirements \in VolumeRequirements,
        related \in { << s_data >>, << >> },
        volume \in { << Volume(s_data, EmptyDict, EmptyDict) >>, << >> } }

\* The entries of the ports property of the container of a port topology
PortEntries ==
    { [type |-> s_NodePort, port |-> PyInt(8080), targetPort |-> PyInt(80)],
      [type |-> s_LoadBalancer, port |-> PyInt(8080)],
      [port |-> PyInt(9090), target |-> PyStr(<< "9", "0" >>), clusterIP |-> s_172_16_0_5],
      [port |-> PyInt(9090), targetPort |-> PyInt(90), clusterIP |-> s_10_100_5_5],
      [port |-> PyInt(53), protocol |-> s_UDP, clusterIP |-> s_None],
      [protocol |-> s_UDP],
      [containerPort |-> PyInt(80)],
      [target |-> PyInt(0)],
      [port |-> PyInt(8080), metadata |-> [name |-> s_front]] }

\* The entries of one ports property
MaxPorts == 2

\* Topologies of a container api with a ports property
PortTemplates ==
    { [nodetemplates |->
         << Container(s_api, EmptyDict, EmptyDict, [ports |-> ports], HubImage,
                      << >>, << >>) >>,
       repositories |-> Repositories] :
        ports \in UNION { [1..n -> PortEntries] : n \in 1..MaxPorts } }

s_Docker_Deployment == DOCKER_CONTAINER \o <<".", "D", "e", "p", "l", "o", "y", "m", "e", "n", "t">>
s_Volume_NFS == CONTAINER_VOLUME \o <<".", "N", "F", "S">>
s_custom_Volume == <<"c", "u", "s", "t", "o", "m", ".">> \o CONTAINER_VOLUME

\* Topologies of a container web and the volume data attached to it, in either
\* order, by type identifier: the two types, a dotted subtype of each, and a
\* volume type of another namespace that contains the volume type
TypeTemplates ==
    { [nodetemplates |-> IF first THEN << container, volume >> ELSE << volume, container >>,
       repositories |-> Repositories] :
        container \in
            { [Container(s_web, EmptyDict, EmptyDict, EmptyDict, HubImage,
                         << Requirement(s_data, [type |-> VOLUME_ATTACHMENT,
                                                 properties |-> [location |-> s_var_data]]) >>,
                         << s_data >>) EXCEPT !.type = type] :
                type \in { DOCKER_CONTAINER, s_Docker_Deployment } },
        volume \in
            { [Volume(s_data, EmptyDict, EmptyDict) EXCEPT !.type = type] :
                type \in { CONTAINER_VOLUME, s_Volume_NFS, s_custom_Volume } },
        first \in BOOLEAN }

\* Topologies of a container web with one or two services, by kind, by the
\* metadata of its configure inputs (none, labels, a namespace without labels)
\* and by its labels property; one has a selector among its create inputs
LabelTemplates ==
    { [nodetemplates |->
         << Container(s_web, create, configure, Update(labels, [ports |-> ports]),
                      HubImage, << >>, << >>) >>,
       repositories |-> Repositories] :
        create \in { EmptyDict, [kind |-> s_StatefulSet], [kind |-> s_DaemonSet],
                     [kind |-> s_Job],
                     [kind |-> s_Deployment,
                      selector |-> [matchLabels |-> [tier |-> s_front]]] },
        configure \in { EmptyDict,
                        [metadata |-> [labels |-> [app |-> s_front, tier |-> s_front]]],
                        [metadata |-> [namespace |-> s_private]] },
        labels \in { EmptyDict, [labels |-> [tier |-> s_nginx, role |-> s_api]] },
        ports \in { << [port |-> PyInt(8080), targetPort |-> PyInt(80)] >>,
                    << [type |-> s_NodePort, port |-> PyInt(8080), targetPort |-> PyInt(80)],
                       [port |-> PyInt(9090), targetPort |-> PyInt(90)] >> } }

\* The templates an adaptor is constructed on
Templates ==
    DriverTemplates \cup VolumeTemplates \cup PortTemplates \cup TypeTemplates
        \cup LabelTemplates

\* KubernetesAdaptor.__init__, lines 70-87
Init ==
    /\ tpl \in Templates
    /\ short_id = s_stack
    /\ status = "Initialised"
    /\ manifests = << >>
    /\ services = << >>
    /\ volumes = EmptyDict
    /\ file = << >>
    /\ log = << >>
    /\ pc = "idle"
    /\ queue = << >>
    /\ error = NoException
    /\ dumps = 0
    /\ produced = 0
    /\ runs = 0
    /\ results = << >>

Spec == Init /\ [][Next]_vars

---------------------------------------------------------------------------
(* The vocabulary of the properties *)

\* the loop of translate is about to visit a node, NextNode
Visits == pc = "translating" /\ queue # << >>

NextNode == tpl.nodetemplates[Head(queue)]

\* the node has an operation of the Kubernetes interface
HasKubernetesOperation(node) ==
    \E i \in DOMAIN node.interfaces :
        Contains(KUBERNETES_INTERFACE, node.interfaces[i].type)

\* a classified workload node: a container application with such an operation
ClassifiedWorkload(node) ==
    Contains(DOCKER_CONTAINER, node.type) /\ HasKubernetesOperation(node)

\* a classified volume node: a container volume with such an operation
ClassifiedVolume(node) ==
    /\ ~Contains(DOCKER_CONTAINER, node.type)
    /\ Contains(CONTAINER_VOLUME, node.type) /\ HasKubernetesOperation(node)

\* the resolved name of a volume node: its name property, else the node's name
ResolvedName(node) ==
    IF Has(node.properties, "name") /\ node.properties["name"] # << >>
    THEN node.properties["name"]
    ELSE node.name

\* a naming error on the name given
NamingError(e, name) ==
    /\ e # NoException
    /\ e.type = "ValueError"
    /\ e.format \in { "ERROR: Use of underscores in {} workload name prohibited",
                      "ERROR: Use of underscores in {} volume name prohibited" }
    /\ e.args = << name >>

\* a missing-image error naming the node
MissingImageError(e, node) ==
    /\ e # NoException
    /\ e.type = "ValueError"
    /\ e.format = "No image specified for {}!"
    /\ e.args = << node.name >>

\* the node lacks a resolvable artifact image: no image file, no artifact
\* repository, or an empty repository list
LacksImage(node, repositories) ==
    LET artifact == Get(Get(node.entity_tpl, "artifacts", EmptyDict), "image", EmptyDict)
    IN  \/ Get(artifact, "file", << >>) = << >>
        \/ Get(artifact, "repository", << >>) = << >>
        \/ repositories = << >>

\* the five supported kinds
FiveKinds == { s_Pod, s_Job, s_Deployment, s_StatefulSet, s_DaemonSet }

\* the kind the node's create inputs ask for, Deployment when they name none
RequestedKind(node) ==
    Get(Get(_interface(node), "create", EmptyDict), "kind", s_Deployment)

\* a workload node that passes the naming rule, asks for a supported kind and
\* has an image
SoundWorkload(node) ==
    /\ ClassifiedWorkload(node)
    /\ ~InSeq("_", node.name)
    /\ RequestedKind(node) \in FiveKinds
    /\ ~LacksImage(node, tpl.repositories)

\* the manifests this step appends
Appended == SubSeq(manifests', Len(manifests) + 1, Len(manifests'))

\* this step appends the workload manifest of the node visited, the last of Appended
EmitsWorkload ==
    /\ Visits /\ ClassifiedWorkload(NextNode)
    /\ error' = NoException
    /\ Appended # << >>
    /\ Appended[Len(Appended)]["kind"] \in FiveKinds

\* the pod spec inside a workload manifest
PodSpecOf(manifest) ==
    IF manifest["kind"] = s_Pod THEN manifest["spec"]
    ELSE manifest["spec"]["template"]["spec"]

\* the container specification inside a workload manifest
ContainerOf(manifest) == PodSpecOf(manifest)["containers"][1]

\* the elements of a list
Elements(list) == { list[i] : i \in DOMAIN list }

\* the related nodes of the node that have an entry in the Volume Binding Table
BoundRelated(node) == { v \in Elements(node.related_nodes) : Has(volumes, v) }

\* the locations at which requirements of the node attach the related node
Locations(node, related) ==
    { node.requirements[i]["volume"]["relationship"]["properties"]["location"] :
        i \in { j \in DOMAIN node.requirements : _attaches(node.requirements[j], related) } }

\* a clusterIP that is the literal "None" or whose first two octets lie in
\* 10.96 - 10.111
AcceptedClusterIP(ip) ==
    \/ ip = s_None
    \/ /\ Len(Split(ip, ".")) >= 2
       /\ Split(ip, ".")[1] = s_10
       /\ IsDigit(Split(ip, ".")[2])
       /\ 96 <= ParseInt(Split(ip, ".")[2]) /\ ParseInt(Split(ip, ".")[2]) <= 111

\* the raw port entries of the node
RawPorts(node) == Get(node.properties, "ports", << >>)

\* the entry has neither a containerPort nor a target nor a publish value
LacksPorts(port) ==
    (DOMAIN port) \cap { "containerPort", "targetPort", "target", "port", "published" } = {}

\* the names of the Service manifests among the manifests
ServiceNames(list) ==
    [i \in DOMAIN SelectSeq(list, LAMBDA m : m["kind"] = s_Service) |->
        SelectSeq(list, LAMBDA m : m["kind"] = s_Service)[i]["metadata"]["name"]]

\* a name "<node>-<type-lowercase>" of one of the services' types
SuffixedName(node, name) ==
    \E type \in { s_ClusterIP, s_NodePort, s_LoadBalancer, s_ExternalIP } :
        name = node.name \o << "-" >> \o Lower(type)

---------------------------------------------------------------------------
(* The properties *)

\* C1, as stated: whenever the loop visits a classified workload or volume node
\* whose node name contains "_", the call raises a naming error, appends
\* nothing and writes no output.
C1_NodeNameWithUnderscore ==
    [][ ( /\ Visits
          /\ ClassifiedWorkload(NextNode) \/ ClassifiedVolume(NextNode)
          /\ InSeq("_", NextNode.name) )
        => ( /\ error' # NoException
             /\ error'.type = "ValueError"
             /\ manifests' = manifests
             /\ file' = file /\ dumps' = dumps ) ]_vars

\* C1, amended: whenever the loop visits a classified workload node whose name
\* contains "_", or a classified volume node whose resolved name (its name
\* property, else its node name) contains "_", the call ends with a naming
\* error on that name, appends nothing and writes no output.
C1_ResolvedNameWithUnderscore ==
    [][ ( /\ Visits
          /\ \/ ClassifiedWorkload(NextNode) /\ InSeq("_", NextNode.name)
             \/ ClassifiedVolume(NextNode) /\ InSeq("_", ResolvedName(NextNode)) )
        => ( /\ NamingError(error', IF ClassifiedWorkload(NextNode) THEN NextNode.name
                                    ELSE ResolvedName(NextNode))
             /\ pc' = "idle"
             /\ manifests' = manifests
             /\ volumes' = volumes
             /\ file' = file /\ dumps' = dumps ) ]_vars

\* a call ended with the naming error on the name property my_disk of a volume
\* node, having appended and written nothing
C1_Witness ==
    /\ pc = "idle"
    /\ NamingError(error, s_my_disk)
    /\ produced = 0 /\ dumps = 0 /\ file = << >>

\* C2, as stated: whenever the loop visits a classified workload node that
\* lacks a resolvable image, the call raises the missing-image error naming
\* the node, whatever its inputs.
C2_MissingImageAlways ==
    [][ ( /\ Visits
          /\ ClassifiedWorkload(NextNode)
          /\ LacksImage(NextNode, tpl.repositories) )
        => MissingImageError(error', NextNode) ]_vars

\* C2, amended: whenever the loop visits a classified workload node that lacks
\* a resolvable image, whose name has no "_" and whose create inputs ask for a
\* supported kind (or none), the call ends with the missing-image error naming
\* the node and appends nothing, whatever the other inputs.
C2_MissingImageOfSupportedKind ==
    [][ ( /\ Visits
          /\ ClassifiedWorkload(NextNode)
          /\ LacksImage(NextNode, tpl.repositories)
          /\ ~InSeq("_", NextNode.name)
          /\ RequestedKind(NextNode) \in FiveKinds )
        => ( /\ MissingImageError(error', NextNode)
             /\ pc' = "idle"
             /\ manifests' = manifests ) ]_vars

\* a call ended with the missing-image error naming the node api
C2_Witness ==
    /\ pc = "idle"
    /\ error # NoException
    /\ error.format = "No image specified for {}!"
    /\ error.args = << s_api >>

\* C3, as stated: the container inside the workload manifest emitted for a node
\* has a mount {name, mountPath} for every bound related node and every
\* location at which an AttachesTo requirement of the node attaches it.
C3_ContainerHasMounts ==
    [][ EmitsWorkload
        => \A related \in BoundRelated(NextNode) :
             \A location \in Locations(NextNode, related) :
                 [name |-> related, mountPath |-> location]
                    \in Elements(Get(ContainerOf(Appended[Len(Appended)]),
                                     "volumeMounts", << >>)) ]_vars

\* C4, as stated: the pod spec of the workload manifest emitted for a node, of
\* any supported kind, has the volume entry {name, persistentVolumeClaim.claimName}
\* of every bound related node attached at a location, and no entry of a bound
\* related node that is not.
C4_PodSpecHasVolumes ==
    [][ EmitsWorkload
        => \A related \in BoundRelated(NextNode) :
             IF Locations(NextNode, related) # {}
             THEN [name |-> related,
                   persistentVolumeClaim |-> [claimName |-> volumes[related]]]
                      \in Elements(Get(PodSpecOf(Appended[Len(Appended)]), "volumes", << >>))
             ELSE \A volume \in Elements(Get(PodSpecOf(Appended[Len(Appended)]),
                                             "volumes", << >>)) :
                      volume["name"] # related ]_vars

\* C5, as stated: a clusterIP in an emitted Service manifest is the literal
\* "None" or has its first two octets in 10.96 - 10.111; any other value of a
\* port entry is dropped.
C5_ClusterIPAccepted ==
    \A i \in DOMAIN manifests :
        ( manifests[i]["kind"] = s_Service /\ Has(manifests[i]["spec"], "clusterIP") )
            => AcceptedClusterIP(manifests[i]["spec"]["clusterIP"])

\* C6, as stated: of the Services emitted for a workload node whose ports carry
\* no service metadata name, exactly one has the bare node name and every
\* other one a name "<node>-<type-lowercase>".
C6_OnePrimaryService ==
    [][ ( /\ EmitsWorkload
          /\ \A p \in Elements(RawPorts(NextNode)) :
                 Get(Get(p, "metadata", EmptyDict), "name", << >>) = << >>
          /\ ServiceNames(Appended) # << >> )
        => ( /\ Cardinality({ i \in DOMAIN ServiceNames(Appended) :
                                ServiceNames(Appended)[i] = NextNode.name }) = 1
             /\ \A i \in DOMAIN ServiceNames(Appended) :
                    \/ ServiceNames(Appended)[i] = NextNode.name
                    \/ SuffixedName(NextNode, ServiceNames(Appended)[i]) ) ]_vars

\* C7, as stated: when the loop visits a workload node one of whose raw port
\* entries has no containerPort, no target and no publish value, no error is
\* raised and the loop goes on to the remaining nodes.
C7_PortWithoutValuesDropped ==
    [][ ( /\ Visits
          /\ SoundWorkload(NextNode)
          /\ \E p \in Elements(RawPorts(NextNode)) : LacksPorts(p) )
        => ( /\ error' = NoException
             /\ pc' = "translating"
             /\ queue' = Tail(queue) ) ]_vars

C9_TerminalStates ==
    [][ ( pc = "translating" /\ pc' = "idle" )
        => IF error' # NoException
           THEN dumps' = 0 /\ file' = file /\ status' = "Translating..."
           ELSE IF produced' = 0
           THEN status' = "Skipped Translation" /\ dumps' = 0 /\ file' = file
           ELSE status' = "Translated" /\ dumps' = 1 /\ file' = << manifests' >> ]_vars

\* a call returned with status "Translated" after one write of the manifests
\* it appended
C9_Witness ==
    /\ pc = "idle"
    /\ error = NoException
    /\ status = "Translated"
    /\ produced > 0 /\ dumps = 1
    /\ file = << manifests >>

\* C10, as stated: the translate calls on one topology return identical
\* ordered manifest collections.
C10_Idempotent ==
    \A i, j \in DOMAIN results : results[i] = results[j]

---------------------------------------------------------------------------
(* The order of the visits and the Volume Binding Table *)

\* prefix is the beginning of s
StartsWith(prefix, s) == Len(prefix) <= Len(s) /\ SubSeq(s, 1, Len(prefix)) = prefix

\* the type identifier of every classified node of the topology begins with
\* the type it is classified by: it is that type or a dotted subtype of it
NamespaceTypes ==
    \A i \in DOMAIN tpl.nodetemplates :
        /\ ClassifiedWorkload(tpl.nodetemplates[i])
              => StartsWith(DOCKER_CONTAINER, tpl.nodetemplates[i].type)
        /\ ClassifiedVolume(tpl.nodetemplates[i])
              => StartsWith(CONTAINER_VOLUME, tpl.nodetemplates[i].type)

\* the nodes still to visit are queued by descending type identifier
DescendingQueue ==
    \A k, l \in DOMAIN queue :
        k < l => ~StrLess(tpl.nodetemplates[queue[k]].type, tpl.nodetemplates[queue[l]].type)

\* every classified volume node of the topology has been visited in this run
\* and has its claim in the Volume Binding Table
VolumesBound ==
    \A i \in DOMAIN tpl.nodetemplates :
        ClassifiedVolume(tpl.nodetemplates[i])
           => /\ \A k \in DOMAIN queue : queue[k] # i
              /\ Has(volumes, tpl.nodetemplates[i].name)

\* C11, as stated: within a run the nodes are visited in descending order of type
\* identifier; whenever a classified workload node is about to be translated,
\* every classified volume node of the topology has been visited and has its
\* claim in the Volume Binding Table; and translating a workload node leaves
\* the table as it was.
C11_VolumesBeforeWorkloads ==
    /\ [](DescendingQueue)
    /\ []((Visits /\ ClassifiedWorkload(NextNode)) => VolumesBound)
    /\ [][ (Visits /\ ClassifiedWorkload(NextNode)) => volumes' = volumes ]_vars

\* C11, amended: within a run the nodes are visited in descending order of type
\* identifier, and translating a workload node leaves the Volume Binding Table
\* as it was; when the type identifier of every classified node begins with
\* the container-application or the volume type, every classified volume node
\* has been visited and has its claim in the table whenever a classified
\* workload node is about to be translated.
C11_VolumesOfTheNamespaceBeforeWorkloads ==
    /\ [](DescendingQueue)
    /\ []((Visits /\ ClassifiedWorkload(NextNode) /\ NamespaceTypes) => VolumesBound)
    /\ [][ (Visits /\ ClassifiedWorkload(NextNode)) => volumes' = volumes ]_vars

\* C11: in the first run a workload node is about to be translated, and a
\* volume node the topology lists after it was visited before it and has its
\* claim in the table
C11_Witness ==
    /\ Visits /\ runs = 1
    /\ ClassifiedWorkload(NextNode)
    /\ NamespaceTypes
    /\ \E i \in DOMAIN tpl.nodetemplates :
          /\ i > Head(queue)
          /\ ClassifiedVolume(tpl.nodetemplates[i])
          /\ Has(volumes, tpl.nodetemplates[i].name)
          /\ volumes[tpl.nodetemplates[i].name] = tpl.nodetemplates[i].name \o s_pvc

---------------------------------------------------------------------------
(* The selectors of the services and of the workload *)

\* the kinds whose manifest has a selector
SelectingKinds == { s_Deployment, s_StatefulSet, s_DaemonSet }

\* the pod labels of a workload node: the labels of its configure inputs'
\* metadata merged with its labels property if it has one, else those labels,
\* else {run: <node name>}
PodLabels(node) ==
    LET metadata == Get(Get(_interface(node), "configure", EmptyDict), "metadata", EmptyDict)
    IN  IF Get(node.properties, "labels", EmptyDict) # EmptyDict
        THEN Update(Get(metadata, "labels", EmptyDict), node.properties["labels"])
        ELSE Get(metadata, "labels", [run |-> node.name])

\* the selector of every Service this step appends is the matchLabels of the
\* workload manifest it appends, and both are the pod labels of the node
ServicesSelectThePods ==
    \A i \in 1..(Len(Appended) - 1) :
        Appended[i]["kind"] = s_Service
           => /\ Appended[i]["spec"]["selector"]
                    = Appended[Len(Appended)]["spec"]["selector"]["matchLabels"]
              /\ Appended[i]["spec"]["selector"] = PodLabels(NextNode)

\* C12, as stated: the selector of every Service emitted for a workload node
\* of kind Deployment, StatefulSet or DaemonSet is the matchLabels of the
\* selector of the node's workload manifest, the pod labels, whatever the
\* configure metadata and the labels property are.
C12_ServiceSelectorIsMatchLabels ==
    [][ (EmitsWorkload /\ Appended[Len(Appended)]["kind"] \in SelectingKinds)
        => ServicesSelectThePods ]_vars

\* C12, amended: the same for a workload node whose create inputs carry no
\* selector of their own.
C12_ServiceSelectorIsBuiltMatchLabels ==
    [][ ( /\ EmitsWorkload
          /\ Appended[Len(Appended)]["kind"] \in SelectingKinds
          /\ ~Has(Get(_interface(NextNode), "create", EmptyDict), "selector") )
        => ServicesSelectThePods ]_vars

\* C12: the first run emitted a Service and a workload manifest that select by
\* the labels of the configure metadata merged with the labels property
C12_Witness ==
    /\ runs = 1
    /\ \E i, j \in DOMAIN manifests :
          /\ manifests[i]["kind"] = s_Service
          /\ manifests[j]["kind"] \in SelectingKinds
          /\ manifests[i]["spec"]["selector"]
                = [app |-> s_front, tier |-> s_nginx, role |-> s_api]
          /\ manifests[j]["spec"]["selector"]["matchLabels"]
                = manifests[i]["spec"]["selector"]

=============================================================================
